---- MODULE Spec2Model ----
(***************************************************************************)
(* nubi-proxy: the /stt, /chat and /tts handlers of the four programs of   *)
(* the repository and the in-memory conversation store they share.         *)
(*                                                                         *)
(*   "server"  src/server.js                 (history bound 8)             *)
(*   "p0a"     src/unnamed/part_000:1-162    (same /stt and /chat text as  *)
(*                                            server.js, its own /tts)     *)
(*   "p0b"     src/unnamed/part_000:164-346  (history bound 12)            *)
(*   "p1"      src/unnamed/part_001          (history bound 12)            *)
(*                                                                         *)
(* A handler is an async function run by a single-threaded event loop: it  *)
(* runs without preemption from its start to its first provider call and   *)
(* from the provider's answer to its response.  Each handler is therefore  *)
(* two actions, X_start and X_resume; between them other requests run.     *)
(* (The further awaits on r.text(), r.json(), toFile() and arrayBuffer()   *)
(* read nothing shared, so they are folded into the resume step.)          *)
(*                                                                         *)
(* JavaScript arrays are objects: `heap` holds the arrays, `memory` maps a *)
(* session key to the index of its array (0: key absent), and a request's  *)
(* local variable `history`/`hist` is an index into `heap`.                *)
(*                                                                         *)
(* Strings that the code trims or tests for emptiness are sequences of     *)
(* one-character strings; Null stands for an absent JSON field.            *)
(***************************************************************************)
EXTENDS Integers, Sequences, FiniteSets, TLC

VARIABLES variant, keyPresent, memory, heap, req, nreq, codec

vars == <<variant, keyPresent, memory, heap, req, nreq, codec>>

(* ------------------------------ bounds --------------------------------- *)
\* requests started in one behaviour
MaxReqs == 2
\* connections served at the same time
NumSlots == 2
\* a pre-existing history holds N - 2 * FreePairs turns
FreePairs == 1

(* -------------------------- program constants --------------------------- *)
HistoryMax8 == 8
HistoryMax12 == 12
MinPcmServer == 1000
MinPcmP0b == 2000
MinPcmP1 == 100

Variants == {"server", "p0a", "p0b", "p1"}
Slots == 1..NumSlots

\* bound of the conversation history of a program
HistoryMax(v) == IF v \in {"server", "p0a"} THEN HistoryMax8 ELSE HistoryMax12

(* ------------------------------ strings --------------------------------- *)
Null == <<"null">>
Empty == <<>>

\* x || ""
OrEmpty(x) == IF x = Null THEN Empty ELSE x

RECURSIVE TrimStart(_)
TrimStart(s) == IF s # Empty /\ Head(s) = " " THEN TrimStart(Tail(s)) ELSE s

RECURSIVE TrimEnd(_)
TrimEnd(s) ==
  IF s # Empty /\ s[Len(s)] = " " THEN TrimEnd(SubSeq(s, 1, Len(s) - 1)) ELSE s

\* String.prototype.trim
Trim(s) == TrimEnd(TrimStart(s))

\* (x || "").toString().trim()
TrimOrEmpty(x) == Trim(OrEmpty(x))

\* x ? String(x) : ""
StringOrEmpty(x) == IF x = Null \/ x = Empty THEN Empty ELSE x

\* the session key of a request: the supplied id, or the program's default key
DefaultKey(v) == IF v \in {"server", "p0a"} THEN "nubi1" ELSE "default"
SessionKey(v, sid) == IF sid = "" THEN DefaultKey(v) ELSE sid

(* ------------------------------ buffers --------------------------------- *)
\* A Buffer is a sequence of bytes (0..255); offsets are counted from 0 as in
\* the code.
Min(a, b) == IF a < b THEN a ELSE b

\* buf.write("RIFF" | "WAVE" | "fmt " | "data", ...): the ASCII codes
Ascii(fourcc) ==
  CASE fourcc = "RIFF" -> <<82, 73, 70, 70>>
    [] fourcc = "WAVE" -> <<87, 65, 86, 69>>
    [] fourcc = "fmt " -> <<102, 109, 116, 32>>
    [] fourcc = "data" -> <<100, 97, 116, 97>>
    [] fourcc = "RIFX" -> <<82, 73, 70, 88>>
    [] fourcc = "LIST" -> <<76, 73, 83, 84>>

\* buf.writeUInt16LE(n, ..)
UInt16LE(n) == <<n % 256, (n \div 256) % 256>>

\* buf.writeUInt32LE(n, ..)
UInt32LE(n) ==
  <<n % 256, (n \div 256) % 256, (n \div 65536) % 256, (n \div 16777216) % 256>>

\* buf.writeInt16LE(v, ..): two's complement
Int16LE(v) == UInt16LE(v % 65536)

\* buf.readUInt16LE(off) (reading past the end throws: see InRange)
readUInt16LE(buf, off) == buf[off + 1] + 256 * buf[off + 2]

\* buf.readUInt32LE(off)
readUInt32LE(buf, off) ==
  buf[off + 1] + 256 * buf[off + 2] + 65536 * buf[off + 3] + 16777216 * buf[off + 4]

\* buf.readInt16LE(off)
readInt16LE(buf, off) ==
  LET u == readUInt16LE(buf, off) IN IF u >= 32768 THEN u - 65536 ELSE u

\* a read of n bytes at off stays inside buf (otherwise the read throws
\* ERR_OUT_OF_RANGE)
InRange(buf, off, n) == off + n <= Len(buf)

\* buf.subarray(start, end): both ends are clamped to the buffer
subarray(buf, start, end) ==
  SubSeq(buf, Min(start, Len(buf)) + 1, Min(end, Len(buf)))

\* the concatenation of the buffers f[1], .., f[n]
RECURSIVE Concat(_, _)
Concat(f, n) == IF n = 0 THEN <<>> ELSE Concat(f, n - 1) \o f[n]

(* ------------------------------ WAV helpers ----------------------------- *)
\* wavHeaderPCM16({ sampleRate, numChannels, numSamples }): numSamples is the
\* quotient floor(pcmBuf.length / 2) / numChannels of pcm16ToWavBuffer, given
\* here by its numerator so that numSamples * blockAlign is computed exactly
wavHeaderPCM16(sampleRate, numChannels, halfLen) ==
  LET blockAlign == numChannels * 2
      byteRate == sampleRate * blockAlign
      dataSize == (halfLen * blockAlign) \div numChannels
  IN Ascii("RIFF") \o UInt32LE(36 + dataSize) \o Ascii("WAVE")
     \o Ascii("fmt ") \o UInt32LE(16) \o UInt16LE(1) \o UInt16LE(numChannels)
     \o UInt32LE(sampleRate) \o UInt32LE(byteRate) \o UInt16LE(blockAlign)
     \o UInt16LE(16) \o Ascii("data") \o UInt32LE(dataSize)

\* an encoder that stores the sample rate in kHz
pcm16ToWavBufferKHz(pcmBuf, sampleRate, numChannels) ==
  wavHeaderPCM16(sampleRate \div 1000, numChannels, Len(pcmBuf) \div 2) \o pcmBuf

\* pcm16ToWavBuffer(pcmBuf, sampleRate, numChannels)
pcm16ToWavBuffer(pcmBuf, sampleRate, numChannels) ==
  wavHeaderPCM16(sampleRate, numChannels, Len(pcmBuf) \div 2) \o pcmBuf

\* the container /stt of part_000:164-346 builds: numSamples =
\* Math.floor(pcm.length / 2 / ch), wav = Buffer.concat([hdr, pcm])
SttWav(pcm, sr, ch) ==
  wavHeaderPCM16(sr, ch, (Len(pcm) \div (2 * ch)) * ch) \o pcm

NoChunk == [found |-> FALSE, size |-> 0, dataOff |-> 0]

\* the loop of findChunk, from offset off on
RECURSIVE findChunkFrom(_, _, _)
findChunkFrom(buf, fourcc, off) ==
  IF off + 8 > Len(buf) THEN NoChunk
  ELSE LET id == SubSeq(buf, off + 1, off + 4)
           size == readUInt32LE(buf, off + 4)
           dataOff == off + 8
       IN IF id = Ascii(fourcc)
            THEN [found |-> TRUE, size |-> size, dataOff |-> dataOff]
            ELSE findChunkFrom(buf, fourcc, dataOff + size + (size % 2))

\* findChunk(buf, fourcc)
findChunk(buf, fourcc) == findChunkFrom(buf, fourcc, 12)

\* a scan that skips the chunk body but not the 8-byte chunk header
NextOffsetNoHeader(off, size) == off + size + (size % 2)

\* one pass of the loop of findChunk over a chunk that is not the one looked
\* for: dataOff = off + 8, off = dataOff + size + (size % 2)
NextOffset(off, size) == (off + 8) + size + (size % 2)

\* what parseWavPcm16 gives: kind "ok" with the three fields, kind "null"
\* (return null), or kind "throw" (a read past the end of the buffer)
Parsed(kind, sampleRate, numChannels, pcm) ==
  [kind |-> kind, sampleRate |-> sampleRate, numChannels |-> numChannels,
   pcm |-> pcm]

ParsedNull == Parsed("null", 0, 0, <<>>)

\* parseWavPcm16(buf)
parseWavPcm16(buf) ==
  IF Len(buf) < 44 THEN ParsedNull
  ELSE IF SubSeq(buf, 1, 4) # Ascii("RIFF") THEN ParsedNull
  ELSE IF SubSeq(buf, 9, 12) # Ascii("WAVE") THEN ParsedNull
  ELSE LET fmt == findChunk(buf, "fmt ")
           data == findChunk(buf, "data")
       IN IF ~fmt.found \/ ~data.found THEN ParsedNull
          ELSE IF ~InRange(buf, fmt.dataOff + 14, 2) THEN Parsed("throw", 0, 0, <<>>)
          ELSE LET audioFormat == readUInt16LE(buf, fmt.dataOff)
                   numChannels == readUInt16LE(buf, fmt.dataOff + 2)
                   sampleRate == readUInt32LE(buf, fmt.dataOff + 4)
                   bitsPerSample == readUInt16LE(buf, fmt.dataOff + 14)
               IN IF audioFormat # 1 THEN ParsedNull
                  ELSE IF bitsPerSample # 16 THEN ParsedNull
                  ELSE Parsed("ok", sampleRate, numChannels,
                              subarray(buf, data.dataOff, data.dataOff + data.size))

\* a halving that rounds toward zero
HalveTowardZero(x) == IF x < 0 THEN -((-x) \div 2) ELSE x \div 2

\* (L + R) >> 1: the arithmetic shift rounds toward negative infinity
ShiftRight1(x) == (x - (x % 2)) \div 2

\* stereoToMonoPcm16(stereoPcm)
stereoToMonoPcm16(stereoPcm) ==
  LET frames == Len(stereoPcm) \div 4
  IN Concat([i \in 1..frames |->
               Int16LE(ShiftRight1(readInt16LE(stereoPcm, (i - 1) * 4)
                                   + readInt16LE(stereoPcm, (i - 1) * 4 + 2)))],
            frames)

RECURSIVE Gcd(_, _)
Gcd(a, b) == IF b = 0 THEN a ELSE Gcd(b, a % b)

\* an interpolation that starts from the far endpoint and so leaves the
\* interval of its two endpoints
RoundLerpOvershoot(s0, s1, num, den) ==
  s1 + ((2 * (s1 - s0) * num + den) - ((2 * (s1 - s0) * num + den) % (2 * den)))
         \div (2 * den)

\* Math.round(s0 + (s1 - s0) * num / den): the nearest integer, halves upward
RoundLerp(s0, s1, num, den) ==
  s0 + ((2 * (s1 - s0) * num + den) - ((2 * (s1 - s0) * num + den) % (2 * den)))
         \div (2 * den)

\* the source index pair and the sample of output index i: t = i * (inRate /
\* outRate), i0 = floor(t), i1 = min(i0 + 1, inLen - 1), frac = t - i0.  The
\* quotient inRate / outRate is taken in lowest terms a / b; the doubles of the
\* code give the same i0 (or i0 - 1 with frac one ulp below 1) and the same
\* rounded sample for the rates of RateIn.
ResampleAt(pcm, inRate, outRate, i) ==
  LET g == Gcd(inRate, outRate)
      a == inRate \div g
      b == outRate \div g
      inLen == Len(pcm) \div 2
      i0 == (i * a) \div b
      i1 == Min(i0 + 1, inLen - 1)
  IN [i0 |-> i0, i1 |-> i1,
      s |-> RoundLerp(readInt16LE(pcm, i0 * 2), readInt16LE(pcm, i1 * 2),
                      (i * a) % b, b)]

\* resamplePcm16MonoLinear(pcm, inRate, outRate)
resamplePcm16MonoLinear(pcm, inRate, outRate) ==
  IF inRate = outRate THEN pcm
  ELSE LET inLen == Len(pcm) \div 2
           outLen == (inLen * outRate) \div inRate
       IN Concat([j \in 1..outLen |->
                    Int16LE(ResampleAt(pcm, inRate, outRate, j - 1).s)],
                 outLen)

(* --------------------------- codec inputs ------------------------------- *)
\* samples per PCM buffer
MaxSamples == 4

\* signed 16-bit samples: the two extremes, zero and minus one
SampleIn == {-32768, -1, 0, 32767}
\* sample rates in Hz
RateIn == {16000, 24000, 48000}
\* channel counts of a PcmBuffer
ChannelIn == {1, 2}

\* the bytes of the samples s[1], .., s[n]
PcmOf(s) == Concat([i \in 1..Len(s) |-> Int16LE(s[i])], Len(s))

\* PCM buffers of 0..MaxSamples samples, each also with one odd trailing byte
PcmIn ==
  UNION { {PcmOf(s), PcmOf(s) \o <<7>>} :
            s \in UNION { [1..n -> SampleIn] : n \in 0..MaxSamples } }

\* a RIFF sub-chunk: id, size, body, padded to an even length
Chunk(fourcc, body) ==
  Ascii(fourcc) \o UInt32LE(Len(body)) \o body
  \o (IF Len(body) % 2 = 1 THEN <<0>> ELSE <<>>)

\* the 16-byte body of a "fmt " chunk
FmtBody(tag, ch, rate, bits) ==
  UInt16LE(tag) \o UInt16LE(ch) \o UInt32LE(rate)
  \o UInt32LE((rate * ch * bits) \div 8) \o UInt16LE((ch * bits) \div 8)
  \o UInt16LE(bits)

\* a RIFF file: magic, size, form type, chunks
Riff(magic, form, chunks) ==
  Ascii(magic) \o UInt32LE(4 + Len(chunks)) \o Ascii(form) \o chunks

Pcm8 == PcmOf(<<0, 32767, -32768, -1>>)
Pcm12 == PcmOf(<<0, 32767, -32768, -1, -1, 0>>)

\* containers a synthesis provider may answer with
WavMono24 ==
  Riff("RIFF", "WAVE", Chunk("fmt ", FmtBody(1, 1, 24000, 16)) \o Chunk("data", Pcm8))
WavStereo16 ==
  Riff("RIFF", "WAVE", Chunk("fmt ", FmtBody(1, 2, 16000, 16)) \o Chunk("data", Pcm12))
WavThree16 ==
  Riff("RIFF", "WAVE", Chunk("fmt ", FmtBody(1, 3, 16000, 16)) \o Chunk("data", Pcm12))
WavStereo16Bits8 ==
  Riff("RIFF", "WAVE", Chunk("fmt ", FmtBody(1, 2, 16000, 8)) \o Chunk("data", Pcm12))
WavFloat ==
  Riff("RIFF", "WAVE", Chunk("fmt ", FmtBody(3, 1, 24000, 16)) \o Chunk("data", Pcm8))
WavShort == SubSeq(WavMono24, 1, 10)
WavBadMagic ==
  Riff("RIFX", "WAVE", Chunk("fmt ", FmtBody(1, 1, 24000, 16)) \o Chunk("data", Pcm8))
WavBadForm ==
  Riff("RIFF", "LIST", Chunk("fmt ", FmtBody(1, 1, 24000, 16)) \o Chunk("data", Pcm8))
WavNoFmt ==
  Riff("RIFF", "WAVE", Chunk("LIST", FmtBody(1, 1, 24000, 16)) \o Chunk("data", Pcm8))
WavNoData ==
  Riff("RIFF", "WAVE", Chunk("fmt ", FmtBody(1, 1, 24000, 16)) \o Chunk("LIST", Pcm8))
WavDataFirst ==
  Riff("RIFF", "WAVE", Chunk("data", Pcm8) \o Chunk("fmt ", FmtBody(1, 1, 24000, 16)))
WavPadded ==
  Riff("RIFF", "WAVE",
       Chunk("fmt ", FmtBody(1, 1, 24000, 16)) \o Chunk("LIST", <<1, 2, 3>>)
       \o Chunk("data", Pcm8))
\* the "fmt " chunk header is the last thing in the file
WavFmtCut ==
  Riff("RIFF", "WAVE", Chunk("data", Pcm12 \o Pcm12) \o Ascii("fmt ") \o UInt32LE(16))
\* the data chunk declares more bytes than follow
WavDataLong ==
  Riff("RIFF", "WAVE",
       Chunk("fmt ", FmtBody(1, 1, 24000, 16)) \o Ascii("data") \o UInt32LE(1000)
       \o Pcm8)

\* the "fmt " chunk declares 16 bytes but the file ends after 8 of them
WavFmtShort ==
  Riff("RIFF", "WAVE",
       Chunk("data", Pcm12 \o Pcm12) \o Ascii("fmt ") \o UInt32LE(16)
       \o SubSeq(FmtBody(1, 1, 24000, 16), 1, 8))
\* the first chunk declares a size that reaches far past the end of the file
WavBigFirst ==
  Riff("RIFF", "WAVE",
       Ascii("data") \o UInt32LE(1000) \o Pcm8
       \o Chunk("fmt ", FmtBody(1, 1, 24000, 16)))
\* a chunk of size 0 comes before the "fmt " and "data" chunks
WavEmptyChunk ==
  Riff("RIFF", "WAVE",
       Chunk("LIST", <<>>) \o Chunk("fmt ", FmtBody(1, 1, 24000, 16))
       \o Chunk("data", Pcm8))

ContainerIn ==
  { WavMono24, WavStereo16, WavThree16, WavStereo16Bits8, WavFloat, WavShort,
    WavBadMagic, WavBadForm, WavNoFmt, WavNoData, WavDataFirst, WavPadded,
    WavFmtCut, WavDataLong, WavFmtShort, WavBigFirst, WavEmptyChunk }

(* ------------------------------ inputs ---------------------------------- *)
\* body.text of /chat and /tts
TextIn == {Null, <<" ">>, <<" ", "m", " ">>}
\* session id supplied by the caller ("": none supplied)
SessionIn == {"", "A"}
\* byte length of the /stt body (-1: no Buffer body)
AudioIn == {-1, 500, 1500, 2500}
\* text of the transcription provider's answer
TranscriptIn == {Null, <<"m", " ">>}
\* message content of the chat provider's answer
AnswerIn == {Null, <<"s", " ">>}

\* answer of the synthesis provider: the bytes; len, ok, sampleRate,
\* numChannels and pcmLen say what the bytes hold when they are read as a WAV
\* container
TtsAnswer(bytes) ==
  LET p == parseWavPcm16(bytes)
  IN [len |-> Len(bytes), ok |-> p.kind = "ok", sampleRate |-> p.sampleRate,
      numChannels |-> p.numChannels, pcmLen |-> Len(p.pcm), bytes |-> bytes]

TtsIn ==
  { TtsAnswer(b) : b \in { WavShort, WavMono24, WavStereo16, WavThree16,
                           WavStereo16Bits8, WavFmtCut } }

SessionKeys == {"nubi1", "default", "A"}

(* ------------------------------ history --------------------------------- *)
Turn(role, content, id) == [role |-> role, content |-> content, req |-> id]

\* a splice that starts one element too late: splice(1, history.length - n)
SpliceAtOne(h, n) ==
  IF Len(h) > n THEN <<h[1]>> \o SubSeq(h, Len(h) - n + 2, Len(h)) ELSE h

\* if (history.length > n) history.splice(0, history.length - n)
SpliceFront(h, n) == IF Len(h) > n THEN SubSeq(h, Len(h) - n + 1, Len(h)) ELSE h

RECURSIVE ShiftWhile(_, _)
\* while (hist.length > n) hist.shift()
ShiftWhile(h, n) == IF Len(h) > n THEN ShiftWhile(Tail(h), n) ELSE h

\* the array stored for session key k (<<>> when the key is absent)
Stored(k) == IF memory[k] = 0 THEN <<>> ELSE heap[memory[k]]

\* a history left by earlier, completed turns: n turns, user and assistant
\* alternating, the oldest first
Earlier(n) ==
  [j \in 1..n |->
     Turn(IF j % 2 = 1 THEN "user" ELSE "assistant",
          IF j % 2 = 1 THEN <<"m">> ELSE <<"s">>,
          ((j + 1) \div 2) - (n \div 2) - 1)]

(* ------------------------------ requests -------------------------------- *)
NoResp == [status |-> 0, body |-> [none |-> TRUE]]

\* pc, kind: where the request is; session, text, audio, hist: the handler's
\* local variables; msgs: the messages of its chat provider call; resp: its
\* response.  History variables of the verification: id (the request's
\* number), calls (provider calls made), outcome (how the provider call
\* ended), pushed (turns the request has appended to heap[hist]), base (the
\* session's stored history when the request started), alone (no other
\* request has run on the session since), sent (the bytes of an audio body),
\* stages (the WAV helpers the handler applied, in order) and nresp (the
\* number of responses the handler has sent).
Idle ==
  [pc |-> "idle", kind |-> "none", id |-> 0, session |-> "", text |-> Empty,
   audio |-> -1, hist |-> 0, msgs |-> <<>>, calls |-> 0, outcome |-> "none",
   pushed |-> 0, base |-> <<>>, alone |-> TRUE, sent |-> <<>>,
   stages |-> <<>>, nresp |-> 0, resp |-> NoResp]

\* a response with a JSON body
Json(status, body) == [status |-> status, body |-> body]

\* a response with a text body
Send(status, text) == [status |-> status, body |-> [send |-> text]]

\* a response whose body is len bytes of audio; declared is the Content-Length
\* header the handler sets (-1: it sets none)
Audio(status, ctype, len, declared) ==
  [status |-> status,
   body |-> [audio |-> len, ctype |-> ctype, contentLength |-> declared]]

\* the request answered with resp
\* a handler that returns without sending anything
DoneSilently(fields, resp) == [fields EXCEPT !.pc = "done", !.msgs = <<>>]

\* the handler sends resp (res.json, res.send or res.end) and returns
Done(fields, resp) ==
  [fields EXCEPT !.pc = "done", !.msgs = <<>>, !.nresp = @ + 1, !.resp = resp]

\* the request appended n turns to the array at index a
Pushed(fields, a, n) == [fields EXCEPT !.hist = a, !.pushed = @ + n]

\* a handler that calls the provider a second time when the call failed
EndedAfterRetry(fields, o) ==
  [fields EXCEPT !.outcome = o, !.calls = IF o = "ok" THEN @ ELSE @ + 1]

\* the provider call of a suspended request ended as o
Ended(fields, o) == [fields EXCEPT !.outcome = o]

\* the WAV helper under study in CodecSpec: op says which helper was applied
\* to buf (with sampleRate, numChannels, outRate); out and parsed hold what it
\* returned.  The handlers of Spec leave it alone.
NoCodec ==
  [op |-> "none", buf |-> <<>>, sampleRate |-> 0, numChannels |-> 0,
   outRate |-> 0, out |-> <<>>, parsed |-> ParsedNull,
   fourcc |-> "", off |-> 0, steps |-> 0, chunk |-> NoChunk]

(* ------------------------------ Init ------------------------------------ *)
\* the session keys that hold a history when the model starts, and the turns
\* each of them holds: two turns per FreePairs below the bound, or the bound
InitialKeys(v) == {{}, {DefaultKey(v)}, {DefaultKey(v), "A"}}
InitialLen(v) == {HistoryMax(v) - 2 * FreePairs, HistoryMax(v)}

Init ==
  /\ variant \in Variants
  \* server.js and part_000:1-162 build the SDK client from the key at start
  /\ keyPresent \in (IF variant \in {"p0b", "p1"} THEN BOOLEAN ELSE {TRUE})
  /\ \E pre \in InitialKeys(variant), n \in InitialLen(variant) :
       /\ memory = [k \in SessionKeys |->
                      IF k \notin pre THEN 0 ELSE IF k = "A" THEN 2 ELSE 1]
       /\ heap = [i \in 1..Cardinality(pre) |-> Earlier(n)]
  /\ req = [r \in Slots |-> Idle]
  /\ nreq = 0
  /\ codec = NoCodec

\* a new request is served in the first slot that holds no suspended request
CanStart(r) ==
  /\ nreq < MaxReqs
  /\ req[r].pc \in {"idle", "done"}
  /\ \A p \in Slots : p < r => req[p].pc = "await"

New(kind) == [Idle EXCEPT !.kind = kind, !.id = nreq + 1]

\* a new request on session key k
NewOn(kind, k) ==
  [New(kind) EXCEPT
     !.session = k, !.base = Stored(k),
     !.alone = \A p \in Slots : ~(req[p].pc = "await" /\ req[p].session = k)]

\* the slots without the requests answered in earlier steps: an answered
\* request is kept for one step, for the properties that read its response
Open == [p \in Slots |-> IF req[p].pc = "done" THEN Idle ELSE req[p]]

\* slot r now holds q, after a step on session key k: the other requests on
\* k are no longer alone
Put(r, q, k) ==
  [p \in Slots |->
     IF p = r THEN q
     ELSE IF Open[p].session = k /\ k # "" THEN [Open[p] EXCEPT !.alone = FALSE]
     ELSE Open[p]]

\* the fixed system instruction of the chat request
Sys == Turn("system", <<"p">>, 0)

(* --------------------- server.js / part_000:1-162 ----------------------- *)
\* history.push({role: "user", ...}); if (history.length > 8) history.splice(...)
PushUser8(h, text, id) == SpliceFront(Append(h, Turn("user", text, id)), HistoryMax8)

\* history.push({role: "assistant", ...}); if (history.length > 8) ...
PushAssistant8(h, reply, id) ==
  SpliceFront(Append(h, Turn("assistant", reply, id)), HistoryMax8)

\* a failure answered as if the transcription had found silence
SttErrorUnflagged == Json(200, [text |-> Empty])

\* res.status(500).json({ text: "" })
SttError == Json(500, [text |-> Empty])

\* POST /stt up to the transcription call
Server_stt_start(r) ==
  /\ variant \in {"server", "p0a"}
  /\ CanStart(r)
  /\ \E len \in AudioIn :
       LET q == [New("stt") EXCEPT !.audio = len] IN
       req' = [Open EXCEPT ![r] =
                 IF len < MinPcmServer
                   THEN Done(q, Json(200, [text |-> Empty]))
                   ELSE [q EXCEPT !.pc = "await", !.calls = 1]]
  /\ nreq' = nreq + 1
  /\ UNCHANGED <<codec, variant, keyPresent, memory, heap>>

\* POST /stt from the transcription answer on (the SDK throws on any failure)
Server_stt_resume(r) ==
  /\ variant \in {"server", "p0a"}
  /\ req[r].pc = "await" /\ req[r].kind = "stt"
  /\ \/ \E t \in TranscriptIn :
          req' = [Open EXCEPT ![r] =
                    Done(Ended(req[r], "ok"), Json(200, [text |-> TrimOrEmpty(t)]))]
     \/ req' = [Open EXCEPT ![r] = Done(Ended(req[r], "throw"), SttError)]
  /\ UNCHANGED <<codec, variant, keyPresent, memory, heap, nreq>>

\* POST /chat up to the chat completion call
Server_chat_start(r) ==
  /\ variant \in {"server", "p0a"}
  /\ CanStart(r)
  /\ \E tin \in TextIn, sid \in SessionIn :
       LET text == TrimOrEmpty(tin)
           k    == SessionKey(variant, sid)
           q    == [NewOn("chat", k) EXCEPT !.text = text]
           \* if (!memory.has(sessionId)) memory.set(sessionId, [])
           heap1 == IF memory[k] = 0 THEN Append(heap, <<>>) ELSE heap
           mem1  == IF memory[k] = 0 THEN [memory EXCEPT ![k] = Len(heap1)] ELSE memory
           a     == mem1[k]
           h     == PushUser8(heap1[a], text, q.id)
       IN
       IF text = Empty
         THEN /\ req' = Put(r, Done(q, Json(200, [reply |-> Empty])), k)
              /\ UNCHANGED <<memory, heap>>
         ELSE /\ memory' = mem1
              /\ heap' = [heap1 EXCEPT ![a] = h]
              /\ req' = Put(r, [Pushed(q, a, 1) EXCEPT
                                  !.pc = "await", !.calls = 1, !.msgs = <<Sys>> \o h], k)
  /\ nreq' = nreq + 1
  /\ UNCHANGED <<codec, variant, keyPresent>>

\* POST /chat from the chat completion answer on
Server_chat_resume(r) ==
  /\ variant \in {"server", "p0a"}
  /\ req[r].pc = "await" /\ req[r].kind = "chat"
  /\ LET a == req[r].hist
         k == req[r].session
     IN
     \/ \E c \in AnswerIn :
          LET reply == TrimOrEmpty(c) IN
          /\ heap' = [heap EXCEPT ![a] = PushAssistant8(heap[a], reply, req[r].id)]
          /\ req' = Put(r, Done(Pushed(Ended(req[r], "ok"), a, 1),
                                Json(200, [reply |-> reply])), k)
     \/ /\ req' = Put(r, Done(Ended(req[r], "throw"), Json(500, [reply |-> Empty])), k)
        /\ UNCHANGED heap
  /\ UNCHANGED <<codec, variant, keyPresent, memory, nreq>>

\* byte length of pcm16ToWavBuffer(pcmBuf, ...): the 44-byte header and pcmBuf
WavLen(pcmLen) == 44 + pcmLen

\* byte length of stereoToMonoPcm16(stereoPcm)
MonoLen(pcmLen) == (pcmLen \div 4) * 2

\* byte length of resamplePcm16MonoLinear(pcm, inRate, outRate)
ResampledLen(pcmLen, inRate, outRate) ==
  IF inRate = outRate THEN pcmLen ELSE (((pcmLen \div 2) * outRate) \div inRate) * 2

TARGET_RATE == 24000

\* the failure response of /tts that carries audio
TtsErrorAsAudio == Audio(200, "audio/wav", 0, -1)

\* res.status(500).send("tts_error")
TtsError == Send(500, "tts_error")

\* POST /tts up to the synthesis call
Server_tts_start(r) ==
  /\ variant \in {"server", "p0a"}
  /\ CanStart(r)
  /\ \E tin \in TextIn :
       LET text == TrimOrEmpty(tin)
           q == [New("tts") EXCEPT !.text = text]
       IN
       req' = [Open EXCEPT ![r] =
                 IF text = Empty
                   THEN Done(q, Send(400, "no text"))
                   ELSE [q EXCEPT !.pc = "await", !.calls = 1]]
  /\ nreq' = nreq + 1
  /\ UNCHANGED <<codec, variant, keyPresent, memory, heap>>

\* POST /tts from the synthesis answer on: the first body of server.js
Server_tts_resume(r) ==
  /\ variant = "server"
  /\ req[r].pc = "await" /\ req[r].kind = "tts"
  /\ \/ \E au \in TtsIn :
          req' = [Open EXCEPT ![r] =
                    Done([Ended(req[r], "ok") EXCEPT !.sent = au.bytes],
                         Audio(200, "audio/wav", au.len, -1))]
     \/ req' = [Open EXCEPT ![r] = Done(Ended(req[r], "throw"), TtsError)]
  /\ UNCHANGED <<codec, variant, keyPresent, memory, heap, nreq>>

\* byte length of the container the second body of server.js sends
NormalizedLen(au) ==
  IF ~au.ok THEN au.len
  ELSE LET mono == IF au.numChannels = 2 THEN MonoLen(au.pcmLen) ELSE au.pcmLen
       IN WavLen(ResampledLen(mono, au.sampleRate, TARGET_RATE))

\* a WAV helper applied to data of the given channel count
Stage(op, channels) == [op |-> op, channels |-> channels]

\* a length header that counts the payload without the 44 header bytes
ContentLengthOfPayload(outWav) == Len(outWav) - 44

\* String(outWav.length)
ContentLength(outWav) == Len(outWav)

\* the second body of server.js from parseWavPcm16 to outWav: kind "throw"
\* when a helper throws, "raw" when the provider's bytes are passed on
\* unparsed, "ok" when they were normalised
NormalizeWav(wavBuf) ==
  LET parsed == parseWavPcm16(wavBuf)
  IN IF parsed.kind = "throw"
       THEN [kind |-> "throw", out |-> <<>>, stages |-> <<Stage("parse", 0)>>]
     ELSE IF parsed.kind = "null"
       THEN [kind |-> "raw", out |-> wavBuf, stages |-> <<Stage("parse", 0)>>]
     ELSE LET stereo == parsed.numChannels = 2
              pcm1 == IF stereo THEN stereoToMonoPcm16(parsed.pcm) ELSE parsed.pcm
              numChannels == IF stereo THEN 1 ELSE parsed.numChannels
              other == parsed.sampleRate # TARGET_RATE
              pcm2 == IF other
                        THEN resamplePcm16MonoLinear(pcm1, parsed.sampleRate, TARGET_RATE)
                        ELSE pcm1
              sampleRate == IF other THEN TARGET_RATE ELSE parsed.sampleRate
          IN [kind |-> "ok",
              out |-> pcm16ToWavBuffer(pcm2, sampleRate, numChannels),
              stages |->
                <<Stage("parse", parsed.numChannels)>>
                \o (IF stereo THEN <<Stage("downmix", parsed.numChannels)>> ELSE <<>>)
                \o (IF other THEN <<Stage("resample", numChannels)>> ELSE <<>>)
                \o <<Stage("encode", numChannels)>>]

\* POST /tts from the synthesis answer on: the second body of server.js
Server_tts_resume2(r) ==
  /\ variant = "server"
  /\ req[r].pc = "await" /\ req[r].kind = "tts"
  /\ \/ \E au \in TtsIn :
          LET n == NormalizeWav(au.bytes)
              q == [Ended(req[r], "ok") EXCEPT !.stages = n.stages]
          IN req' = [Open EXCEPT ![r] =
                       IF n.kind = "throw" THEN Done(q, TtsError)
                       ELSE Done([q EXCEPT !.sent = n.out],
                                 Audio(200, "audio/wav", Len(n.out),
                                       ContentLength(n.out)))]
     \/ req' = [Open EXCEPT ![r] = Done(Ended(req[r], "throw"), TtsError)]
  /\ UNCHANGED <<codec, variant, keyPresent, memory, heap, nreq>>

\* POST /tts from the synthesis answer on: part_000:142-157 (raw PCM wrapped)
P0a_tts_resume(r) ==
  /\ variant = "p0a"
  /\ req[r].pc = "await" /\ req[r].kind = "tts"
  /\ \/ \E au \in TtsIn :
          LET outWav == pcm16ToWavBuffer(au.bytes, TARGET_RATE, 1)
              q == [Ended(req[r], "ok") EXCEPT
                      !.sent = outWav, !.stages = <<Stage("encode", 1)>>]
          IN req' = [Open EXCEPT ![r] =
                       Done(q, Audio(200, "audio/wav", Len(outWav),
                                     ContentLength(outWav)))]
     \/ req' = [Open EXCEPT ![r] = Done(Ended(req[r], "throw"), TtsError)]
  /\ UNCHANGED <<codec, variant, keyPresent, memory, heap, nreq>>

(* ------------------------ part_000:164-346 ------------------------------ *)
\* the response to any request when OPENAI_API_KEY is not set
KeyMissing == Json(500, [error |-> "OPENAI_API_KEY missing"])

\* hist.push({role: "user", ...}); while (hist.length > 12) hist.shift()
StoreUser12(h, text, id) == ShiftWhile(Append(h, Turn("user", text, id)), HistoryMax12)

\* hist.push({role: "assistant", ...}); while (hist.length > 12) hist.shift()
StoreAssistant12(h, reply, id) ==
  ShiftWhile(Append(h, Turn("assistant", reply, id)), HistoryMax12)

\* output_text, or else the text nested in the output list
ReplyOfShapes(direct, nested) ==
  IF TrimOrEmpty(direct) # Empty THEN TrimOrEmpty(direct) ELSE TrimOrEmpty(nested)

\* POST /stt up to the transcription call
P0b_stt_start(r) ==
  /\ variant = "p0b"
  /\ CanStart(r)
  /\ \E len \in AudioIn, sid \in SessionIn :
       LET k == SessionKey(variant, sid)
           q == [NewOn("stt", k) EXCEPT !.audio = len]
           \* const pcm = Buffer.isBuffer(req.body) ? req.body : Buffer.from([])
           pcmLen == IF len < 0 THEN 0 ELSE len
       IN
       req' = IF ~keyPresent THEN [Open EXCEPT ![r] = Done(New("stt"), KeyMissing)]
              ELSE IF pcmLen < MinPcmP0b
                THEN Put(r, Done(q, Json(200, [text |-> Empty])), k)
                ELSE Put(r, [q EXCEPT !.pc = "await", !.calls = 1], k)
  /\ nreq' = nreq + 1
  /\ UNCHANGED <<codec, variant, keyPresent, memory, heap>>

\* POST /stt from the transcription answer on
P0b_stt_resume(r) ==
  /\ variant = "p0b"
  /\ req[r].pc = "await" /\ req[r].kind = "stt"
  /\ LET k == req[r].session IN
     \/ \E t \in TranscriptIn :
          LET text == TrimOrEmpty(t)
              \* const hist = memory.get(session) || []
              heap1 == IF memory[k] = 0 THEN Append(heap, <<>>) ELSE heap
              a     == IF memory[k] = 0 THEN Len(heap1) ELSE memory[k]
              q     == [Ended(req[r], "ok") EXCEPT !.text = text]
          IN
          /\ IF text # Empty
               THEN /\ heap' = [heap1 EXCEPT ![a] = StoreUser12(heap1[a], text, req[r].id)]
                    \* memory.set(session, hist)
                    /\ memory' = [memory EXCEPT ![k] = a]
                    /\ req' = Put(r, Done(Pushed(q, a, 1), Json(200, [text |-> text])), k)
               ELSE /\ req' = Put(r, Done(q, Json(200, [text |-> text])), k)
                    /\ UNCHANGED <<memory, heap>>
     \/ /\ req' = Put(r, Done(Ended(req[r], "notok"),
                              Json(500, [error |-> "stt_failed", detail |-> "body"])), k)
        /\ UNCHANGED <<memory, heap>>
     \/ /\ req' = Put(r, Done(Ended(req[r], "throw"),
                              Json(500, [error |-> "stt_exception", detail |-> "e"])), k)
        /\ UNCHANGED <<memory, heap>>
  /\ UNCHANGED <<codec, variant, keyPresent, nreq>>

\* POST /chat up to the call of the responses endpoint
P0b_chat_start(r) ==
  /\ variant = "p0b"
  /\ CanStart(r)
  /\ \E tin \in TextIn, sid \in SessionIn :
       LET k == SessionKey(variant, sid)
           userText == TrimOrEmpty(tin)
           q == [NewOn("chat", k) EXCEPT !.text = userText]
           \* const hist = memory.get(session) || []
           heap1 == IF memory[k] = 0 THEN Append(heap, <<>>) ELSE heap
           a     == IF memory[k] = 0 THEN Len(heap1) ELSE memory[k]
       IN
       IF ~keyPresent
         THEN /\ req' = [Open EXCEPT ![r] = Done(New("chat"), KeyMissing)]
              /\ UNCHANGED heap
         ELSE IF userText = Empty
           THEN /\ req' = Put(r, Done(q, Json(200, [reply |-> Empty])), k)
                /\ UNCHANGED heap
           ELSE /\ heap' = heap1
                /\ req' = Put(r, [q EXCEPT
                                    !.pc = "await", !.hist = a, !.calls = 1,
                                    !.msgs = <<Sys>> \o heap1[a]
                                               \o <<Turn("user", userText, q.id)>>], k)
  /\ nreq' = nreq + 1
  /\ UNCHANGED <<codec, variant, keyPresent, memory>>

\* POST /chat from the answer of the responses endpoint on
P0b_chat_resume(r) ==
  /\ variant = "p0b"
  /\ req[r].pc = "await" /\ req[r].kind = "chat"
  /\ LET a == req[r].hist
         k == req[r].session
     IN
     \/ \E direct \in AnswerIn, nested \in {Null, <<" ", "s">>} :
          LET reply == ReplyOfShapes(direct, nested) IN
          IF reply # Empty
            THEN /\ heap' = [heap EXCEPT ![a] = StoreAssistant12(heap[a], reply, req[r].id)]
                 \* memory.set(session, hist)
                 /\ memory' = [memory EXCEPT ![k] = a]
                 /\ req' = Put(r, Done(Pushed(Ended(req[r], "ok"), a, 1),
                                       Json(200, [reply |-> reply])), k)
            ELSE /\ req' = Put(r, Done(Ended(req[r], "ok"), Json(200, [reply |-> reply])), k)
                 /\ UNCHANGED <<memory, heap>>
     \/ /\ req' = Put(r, Done(Ended(req[r], "notok"),
                              Json(500, [error |-> "chat_failed", detail |-> "body"])), k)
        /\ UNCHANGED <<memory, heap>>
     \/ /\ req' = Put(r, Done(Ended(req[r], "throw"),
                              Json(500, [error |-> "chat_exception", detail |-> "e"])), k)
        /\ UNCHANGED <<memory, heap>>
  /\ UNCHANGED <<codec, variant, keyPresent, nreq>>

\* POST /tts up to the synthesis call
P0b_tts_start(r) ==
  /\ variant = "p0b"
  /\ CanStart(r)
  /\ \E tin \in TextIn :
       LET text == TrimOrEmpty(tin)
           q == [New("tts") EXCEPT !.text = text]
       IN
       req' = [Open EXCEPT ![r] =
                 IF ~keyPresent THEN Done(New("tts"), KeyMissing)
                 ELSE IF text = Empty
                   THEN Done(q, Json(400, [error |-> "text required"]))
                   ELSE [q EXCEPT !.pc = "await", !.calls = 1]]
  /\ nreq' = nreq + 1
  /\ UNCHANGED <<codec, variant, keyPresent, memory, heap>>

\* POST /tts from the synthesis answer on
P0b_tts_resume(r) ==
  /\ variant = "p0b"
  /\ req[r].pc = "await" /\ req[r].kind = "tts"
  /\ \/ \E au \in TtsIn :
          req' = [Open EXCEPT ![r] =
                    Done([Ended(req[r], "ok") EXCEPT !.sent = au.bytes],
                         Audio(200, "audio/pcm", au.len, -1))]
     \/ req' = [Open EXCEPT ![r] =
                  Done(Ended(req[r], "notok"),
                       Json(500, [error |-> "tts_failed", detail |-> "body"]))]
     \/ req' = [Open EXCEPT ![r] =
                  Done(Ended(req[r], "throw"),
                       Json(500, [error |-> "tts_exception", detail |-> "e"]))]
  /\ UNCHANGED <<codec, variant, keyPresent, memory, heap, nreq>>

(* ----------------------------- part_001 --------------------------------- *)
\* the reply stored without the user turn it answers
PushReplyOnly12(h, text, reply, id) ==
  SpliceFront(Append(h, Turn("assistant", reply, id)), HistoryMax12)

\* history.push(user); history.push(assistant); if (history.length > 12) splice
PushBoth12(h, text, reply, id) ==
  SpliceFront(Append(Append(h, Turn("user", text, id)), Turn("assistant", reply, id)),
              HistoryMax12)

\* POST /stt up to the transcription call
P1_stt_start(r) ==
  /\ variant = "p1"
  /\ CanStart(r)
  /\ \E len \in AudioIn :
       LET q == [New("stt") EXCEPT !.audio = len] IN
       req' = [Open EXCEPT ![r] =
                 IF len < MinPcmP1
                   THEN Done(q, Json(400, [error |-> "pcm_missing_or_too_small"]))
                   ELSE [q EXCEPT !.pc = "await", !.calls = 1]]
  /\ nreq' = nreq + 1
  /\ UNCHANGED <<codec, variant, keyPresent, memory, heap>>

\* POST /stt from the transcription answer on (without a key the provider
\* refuses the request)
P1_stt_resume(r) ==
  /\ variant = "p1"
  /\ req[r].pc = "await" /\ req[r].kind = "stt"
  /\ \/ /\ keyPresent
        /\ \E t \in TranscriptIn :
             LET text == StringOrEmpty(t) IN
             req' = [Open EXCEPT ![r] =
                       Done([Ended(req[r], "ok") EXCEPT !.text = text],
                            Json(200, [text |-> text]))]
     \/ req' = [Open EXCEPT ![r] =
                  Done(Ended(req[r], "notok"),
                       Json(500, [error |-> "stt_failed", detail |-> "body"]))]
     \/ req' = [Open EXCEPT ![r] =
                  Done(Ended(req[r], "throw"),
                       Json(500, [error |-> "stt_exception", detail |-> "e"]))]
  /\ UNCHANGED <<codec, variant, keyPresent, memory, heap, nreq>>

\* getSession() called without its argument: the default session's array
GetSessionNoArg(m, k) == IF m["default"] # 0 THEN m["default"] ELSE m[k]

\* memory.get(sessionId) after getSession's memory.set(sessionId, [])
GetSession(m, k) == m[k]

\* POST /chat up to the chat completion call (openaiFetch throws without a key)
P1_chat_start(r) ==
  /\ variant = "p1"
  /\ CanStart(r)
  /\ \E tin \in TextIn, sid \in SessionIn :
       LET text == StringOrEmpty(tin)
           k    == SessionKey(variant, sid)
           q    == [NewOn("chat", k) EXCEPT !.text = text]
           heap1 == IF memory[k] = 0 THEN Append(heap, <<>>) ELSE heap
           mem1  == IF memory[k] = 0 THEN [memory EXCEPT ![k] = Len(heap1)] ELSE memory
           a     == GetSession(mem1, k)
       IN
       IF text = Empty
         THEN /\ req' = Put(r, Done(q, Json(400, [error |-> "text_missing"])), k)
              /\ UNCHANGED <<memory, heap>>
         ELSE /\ memory' = mem1
              /\ heap' = heap1
              /\ req' =
                   IF ~keyPresent
                     THEN Put(r, Done(q, Json(500, [error |-> "chat_exception",
                                                    detail |-> "e"])), k)
                     ELSE Put(r, [q EXCEPT
                                    !.pc = "await", !.hist = a, !.calls = 1,
                                    !.msgs = <<Sys>> \o heap1[a]
                                               \o <<Turn("user", text, q.id)>>], k)
  /\ nreq' = nreq + 1
  /\ UNCHANGED <<codec, variant, keyPresent>>

\* POST /chat from the chat completion answer on
P1_chat_resume(r) ==
  /\ variant = "p1"
  /\ req[r].pc = "await" /\ req[r].kind = "chat"
  /\ LET a == req[r].hist
         k == req[r].session
     IN
     \/ \E c \in AnswerIn :
          LET reply == StringOrEmpty(c) IN
          /\ heap' = [heap EXCEPT ![a] = PushBoth12(heap[a], req[r].text, reply, req[r].id)]
          /\ req' = Put(r, Done(Pushed(Ended(req[r], "ok"), a, 2),
                                Json(200, [reply |-> reply])), k)
     \/ /\ req' = Put(r, Done(Ended(req[r], "notok"),
                              Json(500, [error |-> "chat_failed", detail |-> "body"])), k)
        /\ UNCHANGED heap
     \/ /\ req' = Put(r, Done(Ended(req[r], "throw"),
                              Json(500, [error |-> "chat_exception", detail |-> "e"])), k)
        /\ UNCHANGED heap
  /\ UNCHANGED <<codec, variant, keyPresent, memory, nreq>>

\* POST /tts up to the synthesis call (openaiFetch throws without a key)
P1_tts_start(r) ==
  /\ variant = "p1"
  /\ CanStart(r)
  /\ \E tin \in TextIn :
       LET text == StringOrEmpty(tin)
           q == [New("tts") EXCEPT !.text = text]
       IN
       req' = [Open EXCEPT ![r] =
                 IF text = Empty
                   THEN Done(q, Json(400, [error |-> "text_missing"]))
                 ELSE IF ~keyPresent
                   THEN Done(q, Json(500, [error |-> "tts_exception", detail |-> "e"]))
                   ELSE [q EXCEPT !.pc = "await", !.calls = 1]]
  /\ nreq' = nreq + 1
  /\ UNCHANGED <<codec, variant, keyPresent, memory, heap>>

\* POST /tts from the synthesis answer on
P1_tts_resume(r) ==
  /\ variant = "p1"
  /\ req[r].pc = "await" /\ req[r].kind = "tts"
  /\ \/ \E au \in TtsIn :
          req' = [Open EXCEPT ![r] =
                    Done(Ended(req[r], "ok"),
                         Json(200, [audio_b64 |-> au.len, format |-> "pcm16",
                                    sample_rate |-> 16000]))]
     \/ req' = [Open EXCEPT ![r] =
                  Done(Ended(req[r], "notok"),
                       Json(500, [error |-> "tts_failed", detail |-> "body"]))]
     \/ req' = [Open EXCEPT ![r] =
                  Done(Ended(req[r], "throw"),
                       Json(500, [error |-> "tts_exception", detail |-> "e"]))]
  /\ UNCHANGED <<codec, variant, keyPresent, memory, heap, nreq>>

Next ==
  \E r \in Slots :
    \/ Server_stt_start(r)
    \/ Server_stt_resume(r)
    \/ Server_chat_start(r)
    \/ Server_chat_resume(r)
    \/ P0b_stt_start(r)
    \/ P0b_stt_resume(r)
    \/ P0b_chat_start(r)
    \/ P0b_chat_resume(r)
    \/ P1_stt_start(r)
    \/ P1_stt_resume(r)
    \/ P1_chat_start(r)
    \/ P1_chat_resume(r)
    \/ Server_tts_start(r)
    \/ Server_tts_resume(r)
    \/ Server_tts_resume2(r)
    \/ P0a_tts_resume(r)
    \/ P0b_tts_start(r)
    \/ P0b_tts_resume(r)
    \/ P1_tts_start(r)
    \/ P1_tts_resume(r)

Spec == Init /\ [][Next]_vars

(* ------------------------ the WAV helpers alone ------------------------- *)
\* one helper applied to one input: a PCM buffer with its format, or the
\* bytes of a container
CodecInit ==
  /\ variant = "server"
  /\ keyPresent = TRUE
  /\ memory = [k \in SessionKeys |-> 0]
  /\ heap = <<>>
  /\ req = [r \in Slots |-> Idle]
  /\ nreq = 0
  /\ \/ \E b \in PcmIn, rate \in RateIn, ch \in ChannelIn :
          codec = [NoCodec EXCEPT !.op = "pcm", !.buf = b, !.sampleRate = rate,
                                  !.numChannels = ch]
     \/ \E b \in ContainerIn : codec = [NoCodec EXCEPT !.op = "bytes", !.buf = b]

\* pcm16ToWavBuffer(buf, sampleRate, numChannels)
Codec_encode ==
  /\ codec.op = "pcm"
  /\ codec' = [codec EXCEPT
                 !.op = "encode",
                 !.out = pcm16ToWavBuffer(codec.buf, codec.sampleRate,
                                          codec.numChannels)]
  /\ UNCHANGED <<variant, keyPresent, memory, heap, req, nreq>>

\* the container of /stt in part_000:164-346
Codec_encodeStt ==
  /\ codec.op = "pcm"
  /\ codec' = [codec EXCEPT
                 !.op = "encodeStt",
                 !.out = SttWav(codec.buf, codec.sampleRate, codec.numChannels)]
  /\ UNCHANGED <<variant, keyPresent, memory, heap, req, nreq>>

\* parseWavPcm16 of the container just encoded
Codec_decodeEncoded ==
  /\ codec.op = "encode"
  /\ codec' = [codec EXCEPT !.op = "roundtrip", !.parsed = parseWavPcm16(codec.out)]
  /\ UNCHANGED <<variant, keyPresent, memory, heap, req, nreq>>

\* parseWavPcm16(buf)
Codec_decode ==
  /\ codec.op = "bytes"
  /\ codec' = [codec EXCEPT !.op = "decode", !.parsed = parseWavPcm16(codec.buf)]
  /\ UNCHANGED <<variant, keyPresent, memory, heap, req, nreq>>

\* stereoToMonoPcm16(buf)
Codec_downmix ==
  /\ codec.op = "pcm" /\ codec.numChannels = 2
  /\ codec' = [codec EXCEPT !.op = "downmix", !.out = stereoToMonoPcm16(codec.buf)]
  /\ UNCHANGED <<variant, keyPresent, memory, heap, req, nreq>>

\* resamplePcm16MonoLinear(buf, sampleRate, outRate)
Codec_resample ==
  /\ codec.op = "pcm" /\ codec.numChannels = 1
  /\ \E outRate \in RateIn :
       codec' = [codec EXCEPT
                   !.op = "resample", !.outRate = outRate,
                   !.out = resamplePcm16MonoLinear(codec.buf, codec.sampleRate,
                                                   outRate)]
  /\ UNCHANGED <<variant, keyPresent, memory, heap, req, nreq>>

\* findChunk(buf, fourcc) entered: let off = 12
Codec_scanStart ==
  /\ codec.op = "bytes"
  /\ \E fourcc \in {"fmt ", "data"} :
       codec' = [codec EXCEPT !.op = "scan", !.fourcc = fourcc, !.off = 12]
  /\ UNCHANGED <<variant, keyPresent, memory, heap, req, nreq>>

\* one test of the loop condition of findChunk and, when it holds, one pass
\* of the loop body; steps counts the chunks passed over
Codec_scanStep ==
  /\ codec.op = "scan"
  /\ LET buf == codec.buf
         off == codec.off
     IN IF off + 8 > Len(buf)
          THEN codec' = [codec EXCEPT !.op = "scanned", !.chunk = NoChunk]
          ELSE LET id == SubSeq(buf, off + 1, off + 4)
                   size == readUInt32LE(buf, off + 4)
                   dataOff == off + 8
               IN IF id = Ascii(codec.fourcc)
                    THEN codec' = [codec EXCEPT
                                     !.op = "scanned",
                                     !.chunk = [found |-> TRUE, size |-> size,
                                                dataOff |-> dataOff]]
                    ELSE codec' = [codec EXCEPT
                                     !.off = NextOffset(off, size),
                                     !.steps = @ + 1]
  /\ UNCHANGED <<variant, keyPresent, memory, heap, req, nreq>>

CodecNext ==
  \/ Codec_scanStart
  \/ Codec_scanStep
  \/ Codec_encode
  \/ Codec_encodeStt
  \/ Codec_decodeEncoded
  \/ Codec_decode
  \/ Codec_downmix
  \/ Codec_resample

CodecSpec == CodecInit /\ [][CodecNext]_vars

\* findChunk is a synchronous loop: once entered, its next pass is executed
CodecFairSpec == CodecSpec /\ WF_vars(Codec_scanStep)

(* ---------------------------- properties -------------------------------- *)
Range(h) == {h[i] : i \in 1..Len(h)}

\* the n most recent elements of h
Newest(h, n) == IF Len(h) <= n THEN h ELSE [i \in 1..n |-> h[Len(h) - n + i]]

\* slot r took the step: a request started in it, or its request went on
Acted(r) ==
  /\ req'[r].pc # "idle"
  /\ req'[r].id # req[r].id \/ req'[r].pc # req[r].pc

\* the number of turns the step of slot r appended
PushedNow(r) ==
  req'[r].pushed - (IF req'[r].id = req[r].id THEN req[r].pushed ELSE 0)

\* the array at index a before the step (a fresh array is empty)
Before(a) == IF a \in 1..Len(heap) THEN heap[a] ELSE <<>>

\* the step of slot r appends its j newest turns to its array and keeps the
\* newest N of the result, the rest of the array in its old order
AppendsAndEvictsOldest(r) ==
  LET j   == PushedNow(r)
      a   == req'[r].hist
      old == Before(a)
      new == heap'[a]
      x   == [i \in 1..j |-> new[Len(new) - j + i]]
  IN  /\ j <= Len(new)
      /\ \A i \in 1..j : x[i].req = req'[r].id /\ x[i] \notin Range(old)
      /\ new = Newest(old \o x, HistoryMax(variant))

\* C1: every stored history holds at most N turns (8 in server.js, 12 in the
\* other programs), and a step that appends turns to a history leaves the N
\* most recent turns of the old history followed by the appended ones: what
\* is removed is taken from the front, the order of the rest is kept; a step
\* that appends nothing changes no history array.
C1_BoundedOldestEvicted ==
  /\ [](\A k \in SessionKeys : Len(Stored(k)) <= HistoryMax(variant))
  /\ [][\A r \in Slots : Acted(r) =>
          IF PushedNow(r) > 0
            THEN AppendsAndEvictsOldest(r)
            ELSE \A a \in 1..Len(heap) : heap'[a] = heap[a]]_vars

\* C1 witness: a request appended a turn to a history that is now full and
\* has lost the oldest turn it held when the request started
C1_Witness ==
  \E r \in Slots :
    LET h == Stored(req[r].session) IN
    /\ req[r].pushed > 0 /\ req[r].base # <<>>
    /\ Len(h) = HistoryMax(variant)
    /\ req[r].base[1] \notin Range(h)
    /\ h[Len(h)].req = req[r].id

\* C2: no step removes a turn from a session's stored history unless the
\* history is at its bound after the step (the bound evicted the turn): a
\* write-back never replaces the stored history by an array that lacks a
\* turn another request appended.
C2_NoLostAppend ==
  [][\A k \in SessionKeys : \A i \in 1..Len(Stored(k)) :
       \/ Stored(k)[i] \in Range(Stored(k)')
       \/ Len(Stored(k)') = HistoryMax(variant)]_vars

\* C3: in every stored history that holds both the user turn and the
\* assistant reply of one chat request, the reply directly follows the user
\* turn.
C3_ReplyFollowsItsUserTurn ==
  \A k \in SessionKeys :
    LET h == Stored(k) IN
    \A i, j \in 1..Len(h) :
      (h[i].role = "user" /\ h[j].role = "assistant" /\ h[i].req = h[j].req)
        => j = i + 1

ReplyOf(resp) == IF "reply" \in DOMAIN resp.body THEN resp.body.reply ELSE Empty

\* the transcript a response carries ("" when it carries none)
TranscriptOf(resp) == IF "text" \in DOMAIN resp.body THEN resp.body.text ELSE Empty

\* the provider call of the request in slot r failed
Failed(r) == req[r].pc = "done" /\ req[r].outcome \in {"notok", "throw"}

\* the provider call of the request in slot r succeeded
Succeeded(r) == req[r].pc = "done" /\ req[r].outcome = "ok"

\* C5: after a chat request whose provider call failed (and that ran alone
\* on its session) the response carries an empty reply and the session's
\* history is its history at the start of the request plus the user turn,
\* without an assistant turn.  (In part_000:164-346 the user turn is the
\* transcription step's to append, so the chat request adds nothing.)
C5_FailedChatKeepsUserTurn ==
  \A r \in Slots :
    (req[r].kind = "chat" /\ Failed(r) /\ req[r].alone) =>
      /\ ReplyOf(req[r].resp) = Empty
      /\ Stored(req[r].session) =
           IF variant = "p0b" THEN req[r].base
           ELSE Newest(req[r].base \o <<Turn("user", req[r].text, req[r].id)>>,
                       HistoryMax(variant))

\* C6: after a chat request with a non-empty text whose provider call gave a
\* non-empty reply, and that ran alone on its session, the session's history
\* is its history at the start plus the user turn and then the assistant
\* turn (bounded to the newest N).  In part_000:164-346 the two turns come
\* from the two steps of the turn: the transcription request appends the
\* user turn, the chat request the assistant turn.
C6_TurnAppendsUserThenAssistant ==
  \A r \in Slots :
    LET q == req[r]
        N == HistoryMax(variant)
        user == Turn("user", q.text, q.id)
        assistant == Turn("assistant", ReplyOf(q.resp), q.id)
    IN
    (Succeeded(r) /\ q.alone /\ Trim(q.text) # Empty) =>
      /\ (q.kind = "chat" /\ Trim(ReplyOf(q.resp)) # Empty /\ variant # "p0b")
           => Stored(q.session) = Newest(q.base \o <<user, assistant>>, N)
      /\ (q.kind = "chat" /\ Trim(ReplyOf(q.resp)) # Empty /\ variant = "p0b")
           => Stored(q.session) = Newest(q.base \o <<assistant>>, N)
      /\ (q.kind = "stt" /\ variant = "p0b")
           => Stored(q.session) = Newest(q.base \o <<user>>, N)

\* C6 witness: a chat request answered with a non-empty reply, alone on its
\* session, whose user turn is in the history (in part_000:164-346, put
\* there by the transcription request just before)
C6_Witness ==
  \E r \in Slots :
    LET q == req[r] IN
    /\ q.kind = "chat" /\ Succeeded(r) /\ q.alone
    /\ Trim(ReplyOf(q.resp)) # Empty
    /\ Len(Stored(q.session)) >= 2
    /\ LET h == Stored(q.session) IN
       /\ h[Len(h)].role = "assistant" /\ h[Len(h)].req = q.id
       /\ h[Len(h) - 1].role = "user" /\ h[Len(h) - 1].content = q.text
       /\ h[Len(h) - 1].req >= 1

\* C6, the turn of part_000:164-346: the user turn was appended by the
\* transcription request, the assistant turn by the chat request after it
C6_WitnessSplitTurn ==
  \E r \in Slots :
    LET q == req[r]
        h == Stored(q.session)
    IN
    /\ variant = "p0b" /\ q.kind = "chat" /\ Succeeded(r) /\ q.alone
    /\ Len(h) >= 2
    /\ h[Len(h)] = Turn("assistant", ReplyOf(q.resp), q.id)
    /\ h[Len(h) - 1].role = "user" /\ h[Len(h) - 1].content = q.text
    /\ h[Len(h) - 1].req \in 1..(q.id - 1)

\* C7: with the API key configured, a transcription request whose body is
\* absent or shorter than 1000 bytes ends with the normal response
\* {text: ""} and without a call to the transcription provider.
C7_ShortAudioIsSilence ==
  \A r \in Slots :
    (keyPresent /\ req[r].kind = "stt" /\ req[r].pc = "done"
       /\ req[r].audio < MinPcmServer) =>
      /\ req[r].resp = Json(200, [text |-> Empty])
      /\ req[r].calls = 0

\* C8: no history array holds a turn whose content is empty after trimming.
C8_NoEmptyTurnStored ==
  \A a \in 1..Len(heap) : \A i \in 1..Len(heap[a]) :
    Trim(heap[a][i].content) # Empty

\* C9: a transcription request whose provider call failed ends with a
\* response that is flagged as a failure (status 500) and carries no
\* transcript text, and the step that handles the failure changes no history.
C9_SttFailureSurfaced ==
  /\ [](\A r \in Slots :
          (req[r].kind = "stt" /\ Failed(r)) =>
            /\ req[r].resp.status = 500
            /\ TranscriptOf(req[r].resp) = Empty)
  /\ [][\A r \in Slots :
          (Acted(r) /\ req'[r].kind = "stt"
             /\ req'[r].outcome \in {"notok", "throw"})
            => UNCHANGED <<memory, heap>>]_vars

\* C9 witness: a transcription request has failed at the provider
C9_Witness ==
  \E r \in Slots : req[r].kind = "stt" /\ Failed(r) /\ req[r].audio >= MinPcmP0b

\* C10: a synthesis request whose provider call failed ends with an error
\* status and a body that is no audio.
C10_TtsFailureExplicit ==
  \A r \in Slots :
    (req[r].kind = "tts" /\ Failed(r)) =>
      /\ req[r].resp.status >= 400
      /\ "audio" \notin DOMAIN req[r].resp.body
      /\ "audio_b64" \notin DOMAIN req[r].resp.body

\* C10 witness: a synthesis request has failed at the provider
C10_Witness == \E r \in Slots : req[r].kind = "tts" /\ Failed(r)

(* ------------------------------ synthesis ------------------------------- *)
\* the request in slot r was answered 200 with an audio body
AudioSent(r) ==
  /\ req[r].kind = "tts" /\ req[r].pc = "done"
  /\ req[r].resp.status = 200
  /\ "audio" \in DOMAIN req[r].resp.body

\* the Content-Length of an audio response: the header the handler set, or,
\* where it set none, the length res.send takes from the Buffer it is given
DeclaredLength(resp) ==
  IF resp.body.contentLength # -1 THEN resp.body.contentLength ELSE resp.body.audio

\* C11: every successful synthesis response declares a byte length equal to
\* the length of the bytes it sends as its body
C11_DeclaredLengthIsBodyLength ==
  \A r \in Slots :
    AudioSent(r) =>
      /\ req[r].resp.body.audio = Len(req[r].sent)
      /\ DeclaredLength(req[r].resp) = Len(req[r].sent)

\* C11 witness: a container rebuilt by the handler (downmixed, so of another
\* length than the provider's answer) was sent with an explicit Content-Length
C11_Witness ==
  \E r \in Slots :
    /\ AudioSent(r)
    /\ req[r].resp.body.contentLength = Len(req[r].sent)
    /\ \E i \in 1..Len(req[r].stages) : req[r].stages[i].op = "downmix"

\* C12: a request calls its provider at most once; when the call fails the
\* request ends in that same step with the failure result of the stage
\* (status 500, no reply, no transcript, no audio), the step appends nothing,
\* and no assistant turn of the request is ever stored
C12_FailureEndsTheRequest ==
  /\ [](\A r \in Slots :
          /\ req[r].calls <= 1
          /\ Failed(r) =>
               /\ req[r].calls = 1
               /\ req[r].resp.status = 500
               /\ ReplyOf(req[r].resp) = Empty
               /\ TranscriptOf(req[r].resp) = Empty
               /\ "audio" \notin DOMAIN req[r].resp.body
               /\ \A a \in 1..Len(heap) : \A i \in 1..Len(heap[a]) :
                    ~(heap[a][i].req = req[r].id /\ heap[a][i].role = "assistant"))
  /\ [][\A r \in Slots :
          (Acted(r) /\ req'[r].outcome \in {"notok", "throw"})
            => (req'[r].pc = "done" /\ UNCHANGED <<memory, heap>>)]_vars

\* C12 witness: a chat request that had appended its user turn failed at the
\* provider
C12_Witness ==
  \E r \in Slots : req[r].kind = "chat" /\ Failed(r) /\ req[r].pushed = 1

(* ------------------------------ WAV helpers ----------------------------- *)
\* C13: the container encoded from a PCM buffer is 44 + payload length bytes
\* long, its data-length field (bytes 40-43) is the payload's byte length
\* and its RIFF size field (bytes 4-7) is the total length minus 8
C13_HeaderLengthsMatchPayload ==
  codec.op \in {"encode", "encodeStt"} =>
    /\ Len(codec.out) = WavLen(Len(codec.buf))
    /\ subarray(codec.out, 44, Len(codec.out)) = codec.buf
    /\ readUInt32LE(codec.out, 40) = Len(codec.buf)
    /\ readUInt32LE(codec.out, 4) = Len(codec.out) - 8

\* buf holds whole frames: its byte length is samples * channels * 2
WholeFrames(buf, numChannels) == Len(buf) % (2 * numChannels) = 0

\* C14: decoding the container encoded from a valid PCM buffer gives back
\* the buffer's sample rate, its channel count and its payload bytes
C14_DecodeOfEncodeIsIdentity ==
  (codec.op = "roundtrip" /\ WholeFrames(codec.buf, codec.numChannels)) =>
    codec.parsed = Parsed("ok", codec.sampleRate, codec.numChannels, codec.buf)

\* C14 witness: a stereo buffer of two frames was encoded and decoded
C14_Witness ==
  /\ codec.op = "roundtrip" /\ codec.numChannels = 2 /\ Len(codec.buf) = 8
  /\ codec.parsed.kind = "ok" /\ codec.parsed.pcm = codec.buf

\* C14 witness for the empty buffer: zero samples were encoded and decoded
C14_WitnessEmpty ==
  /\ codec.op = "roundtrip" /\ codec.buf = <<>> /\ codec.parsed.kind = "ok"

\* the defect of a container of ContainerIn ("none": it decodes)
DefectOf(b) ==
  CASE b = WavShort -> "too-short"
    [] b \in {WavBadMagic, WavBadForm} -> "bad-magic"
    [] b \in {WavNoFmt, WavNoData} -> "missing-chunk"
    [] b \in {WavFloat, WavStereo16Bits8} -> "unsupported-format"
    [] OTHER -> "none"

\* C15: decode rejects a container that is too short, has a wrong magic,
\* misses a chunk or declares an unsupported format, and what it returns for
\* one of these defects differs from what it returns for another
C15_DecodeFailureKindsDistinct ==
  (codec.op = "decode" /\ DefectOf(codec.buf) # "none") =>
    /\ codec.parsed.kind # "ok"
    /\ \A b \in ContainerIn :
         (DefectOf(b) \notin {"none", DefectOf(codec.buf)})
           => parseWavPcm16(b) # codec.parsed

\* the sum L + R of the k-th stereo frame of buf (k from 1)
FrameSum(buf, k) ==
  readInt16LE(buf, (k - 1) * 4) + readInt16LE(buf, (k - 1) * 4 + 2)

\* C16: the downmix of a stereo buffer with N complete frames has exactly N
\* samples, the k-th being floor((L_k + R_k) / 2); bytes after the last
\* complete frame are dropped
C16_DownmixIsFloorAverage ==
  codec.op = "downmix" =>
    /\ Len(codec.out) = MonoLen(Len(codec.buf))
    /\ Len(codec.out) = 2 * (Len(codec.buf) \div 4)
    /\ \A k \in 1..(Len(codec.buf) \div 4) :
         LET m == readInt16LE(codec.out, (k - 1) * 2)
         IN 2 * m <= FrameSum(codec.buf, k) /\ FrameSum(codec.buf, k) <= 2 * m + 1

\* C16 witness: a buffer with a frame of odd negative sum and an incomplete
\* last frame was downmixed
C16_Witness ==
  /\ codec.op = "downmix"
  /\ Len(codec.buf) % 4 # 0
  /\ \E k \in 1..(Len(codec.buf) \div 4) :
       FrameSum(codec.buf, k) = -1 /\ readInt16LE(codec.out, (k - 1) * 2) = -1

\* the sample at index i of a mono buffer (i from 0)
SampleAt(buf, i) == readInt16LE(buf, i * 2)

\* v lies in the closed interval spanned by a and b
Between(v, a, b) == (a <= v /\ v <= b) \/ (b <= v /\ v <= a)

\* C17: resampling between two different rates gives floor(inLen * r2 / r1)
\* samples, inLen = floor(length / 2) being the number of input samples
\* (length / 2 for a buffer of whole samples); every output sample lies
\* between the two input samples it is interpolated from, whose indices i0
\* and i1 are indices of the input
C17_ResampleCountAndRange ==
  (codec.op = "resample" /\ codec.sampleRate # codec.outRate) =>
    LET inLen == Len(codec.buf) \div 2
        outLen == Len(codec.out) \div 2
    IN /\ Len(codec.out) = ResampledLen(Len(codec.buf), codec.sampleRate, codec.outRate)
       /\ Len(codec.out) = 2 * ((inLen * codec.outRate) \div codec.sampleRate)
       /\ Len(codec.buf) % 2 = 0 =>
            outLen = (Len(codec.buf) * codec.outRate) \div (2 * codec.sampleRate)
       /\ \A j \in 1..outLen :
            LET p == ResampleAt(codec.buf, codec.sampleRate, codec.outRate, j - 1)
            IN /\ p.i0 \in 0..(inLen - 1)
               /\ p.i1 \in 0..(inLen - 1)
               /\ Between(SampleAt(codec.out, j - 1),
                          SampleAt(codec.buf, p.i0), SampleAt(codec.buf, p.i1))

\* C17 witness: an upsampling produced a sample strictly between two
\* different input samples, and its last sample from the clamped index pair
C17_Witness ==
  /\ codec.op = "resample" /\ codec.outRate > codec.sampleRate
  /\ Len(codec.out) > Len(codec.buf)
  /\ \E j \in 1..(Len(codec.out) \div 2) :
       LET p == ResampleAt(codec.buf, codec.sampleRate, codec.outRate, j - 1)
           v == SampleAt(codec.out, j - 1)
       IN /\ v # SampleAt(codec.buf, p.i0) /\ v # SampleAt(codec.buf, p.i1)
          /\ Between(v, SampleAt(codec.buf, p.i0), SampleAt(codec.buf, p.i1))
  /\ LET p == ResampleAt(codec.buf, codec.sampleRate, codec.outRate,
                          (Len(codec.out) \div 2) - 1)
     IN p.i1 = p.i0

(* ------------------------ synthesis normalisation ----------------------- *)
\* the request in slot r was answered 200 with an audio body by a handler
\* that runs the provider's bytes through the WAV helpers
NormalizedSent(r) == AudioSent(r) /\ req[r].stages # <<>>

\* C18: the container of a successful synthesis response that went through
\* the WAV helpers is a PCM16 container declaring one channel and the
\* playback rate, whose data-length field is the length of its payload
C18_SentContainerIsMonoAtTargetRate ==
  \A r \in Slots :
    NormalizedSent(r) =>
      LET p == parseWavPcm16(req[r].sent)
      IN /\ p.kind = "ok"
         /\ p.numChannels = 1
         /\ p.sampleRate = TARGET_RATE
         /\ readUInt32LE(req[r].sent, 40) = Len(req[r].sent) - 44
         /\ p.pcm = subarray(req[r].sent, 44, Len(req[r].sent))

\* C19: in the normalisation of a synthesis answer the resampler is applied
\* to one-channel data only, and a downmix, where there is one, comes before
\* the resampling
C19_ResampleOnlyAfterDownmix ==
  \A r \in Slots :
    \A i \in 1..Len(req[r].stages) :
      req[r].stages[i].op = "resample" =>
        /\ req[r].stages[i].channels = 1
        /\ \A j \in 1..Len(req[r].stages) :
             req[r].stages[j].op = "downmix" => j < i

(* ------------------------------ chat request ---------------------------- *)
\* the turn was stored by a transcription request of this behaviour: only
\* /stt of part_000:164-346 stores user turns taken from transcripts
StoredByTranscription(turn) ==
  variant = "p0b" /\ turn.role = "user" /\ turn.req > 0

\* C20: the messages of a chat provider call are the system instruction,
\* then at most N turns of history, then the request's user turn as the last
\* message; that turn occurs once, and the message before it is not the same
\* text stored as a user turn by the transcription step
C20_UserTurnSentOnce ==
  \A r \in Slots :
    (req[r].kind = "chat" /\ req[r].pc = "await") =>
      LET m == req[r].msgs
          n == Len(m)
      IN /\ n >= 2
         /\ m[1] = Sys
         /\ m[n] = Turn("user", req[r].text, req[r].id)
         /\ n - 1 <= HistoryMax(variant) + 1
         /\ \A i \in 2..(n - 1) : m[i].role # "system" /\ m[i].req # req[r].id
         /\ n >= 3 =>
              ~(StoredByTranscription(m[n - 1]) /\ m[n - 1].content = req[r].text)

(* ------------------------------ decode ---------------------------------- *)
\* C21: decode of any byte sequence returns a container or a failure value
\* and never throws, also when the "fmt " chunk is found with fewer than 16
\* bytes after its chunk header
C21_DecodeNeverThrows ==
  codec.op = "decode" => codec.parsed.kind \in {"ok", "null"}

(* ---------------------------- chunk scan -------------------------------- *)
\* the chunk header at the scan offset of the scan in progress
ScanSize == readUInt32LE(codec.buf, codec.off + 4)

\* C22: the chunk scan terminates on every buffer.  Each pass over a chunk
\* moves the offset forward by 8 + size, plus 1 when size is odd, so the
\* offset strictly increases by at least 8 and stays even; the number of
\* passes is bounded by the bytes after the 12-byte file header; as soon as
\* fewer than 8 bytes remain the scan stops with "not found", and it only
\* answers "not found" then; the stepwise scan answers what findChunk
\* answers; a scan that has started ends.
C22_ScanTerminates ==
  /\ [](codec.op \in {"scan", "scanned"} =>
          /\ codec.off >= 12 /\ codec.off % 2 = 0
          /\ codec.off >= 12 + 8 * codec.steps
          /\ codec.steps > 0 => 8 * codec.steps <= Len(codec.buf) - 12
          /\ codec.op = "scanned" =>
                /\ codec.chunk = findChunk(codec.buf, codec.fourcc)
                /\ ~codec.chunk.found <=> codec.off + 8 > Len(codec.buf))
  /\ [][codec.op = "scan" =>
          /\ codec.off + 8 > Len(codec.buf) =>
                codec'.op = "scanned" /\ codec'.chunk = NoChunk
          /\ codec'.op = "scan" =>
                /\ codec'.off > codec.off
                /\ codec'.off >= codec.off + 8
                /\ codec'.off - (codec.off + 8) =
                     IF ScanSize % 2 = 1 THEN ScanSize + 1 ELSE ScanSize]_vars
  /\ (codec.op = "scan" ~> codec.op = "scanned")

\* a scan has passed over a chunk whose declared size reaches past the end
\* of the buffer and has stopped with "not found"
C22_Witness ==
  /\ codec.op = "scanned" /\ ~codec.chunk.found
  /\ codec.steps >= 1 /\ codec.off > Len(codec.buf) + 8

\* a scan has passed over a chunk of odd size and over a chunk of size 0
C22_WitnessPadded ==
  /\ codec.op = "scanned" /\ codec.chunk.found /\ codec.steps >= 1
  /\ codec.buf \in {WavPadded, WavEmptyChunk}

(* ------------------------------ responses ------------------------------- *)
\* the continuation of the suspended handler in slot r
Resume(r) ==
  \/ Server_stt_resume(r) \/ Server_chat_resume(r) \/ Server_tts_resume(r)
  \/ Server_tts_resume2(r) \/ P0a_tts_resume(r)
  \/ P0b_stt_resume(r) \/ P0b_chat_resume(r) \/ P0b_tts_resume(r)
  \/ P1_stt_resume(r) \/ P1_chat_resume(r) \/ P1_tts_resume(r)

\* C23: every transcription, chat and synthesis request ends with exactly
\* one response.  A finished request has sent one response, a suspended one
\* has sent none and can always continue once its provider call returns or
\* throws, and a suspended request is never dropped: it stays suspended or
\* finishes, whichever way the provider call ended.
C23_ExactlyOneResponse ==
  /\ [](\A r \in Slots :
          /\ req[r].pc \in {"idle", "await", "done"}
          /\ req[r].pc = "done" => req[r].nresp = 1 /\ req[r].resp # NoResp
          /\ req[r].pc # "done" => req[r].nresp = 0 /\ req[r].resp = NoResp
          /\ req[r].pc = "await" => ENABLED Resume(r))
  /\ [][\A r \in Slots :
          /\ req[r].pc = "await" =>
                req'[r].id = req[r].id /\ req'[r].pc \in {"await", "done"}
          /\ Acted(r) /\ req'[r].outcome # "none" => req'[r].pc = "done"]_vars

\* a request has finished with its one response after its provider call
\* threw, while another request is still suspended without a response
C23_Witness ==
  \E r, p \in Slots :
    /\ req[r].pc = "done" /\ req[r].outcome = "throw" /\ req[r].nresp = 1
    /\ req[r].resp.status = 500
    /\ req[p].pc = "await" /\ req[p].nresp = 0

(* ------------------------------ empty text ------------------------------ *)
\* the step starts a chat request in slot r whose text is empty after trimming
\* (with the provider key configured)
EmptyChatStarts(r) ==
  /\ keyPresent
  /\ req'[r].kind = "chat" /\ req'[r].id # req[r].id
  /\ Trim(req'[r].text) = Empty

\* C24: a chat request whose text is empty after trimming is answered at once
\* with reply = "" without a chat provider call, and the step leaves the
\* session map alone: no history is created and none is modified
C24_EmptyTextIsNoOp ==
  [][\A r \in Slots :
       EmptyChatStarts(r) =>
         /\ req'[r].pc = "done"
         /\ req'[r].calls = 0
         /\ "reply" \in DOMAIN req'[r].resp.body
         /\ ReplyOf(req'[r].resp) = Empty
         /\ UNCHANGED <<memory, heap>>]_vars
====
